---- MODULE Spec2Model ----
(***************************************************************************)
(* Model of cli/util/draw_thread.rs: the process-wide draw thread registry *)
(* (InnerState behind GLOBAL_STATE.state), the producer operations         *)
(* add_entry / hide / show / finish_entry (guard drop), and the background *)
(* draw loop spawned by maybe_start_draw_thread.                           *)
(*                                                                         *)
(* Every Mutex critical section is two steps: acquiring the lock (blocked  *)
(* while another thread holds it) and the body, which ends by releasing    *)
(* it.  Whatever the code does after its lock guard is dropped (the        *)
(* eprint_clear of hide and finish_entry, the size query and the renderer  *)
(* calls of the loop) is a step of its own, so other threads interleave    *)
(* exactly where they can in the program.                                  *)
(***************************************************************************)
EXTENDS Integers, Sequences, FiniteSets, TLC

\* ------------------------------------------------------------- bounds
MaxAdds == 2       \* renderers ever registered (add_entry calls, long-run entry included)
NumProducers == 2  \* threads calling the facade
MaxHide == 2       \* cap on hide_count
MaxSize == 1       \* console sizes are 1..MaxSize; 0 is None

\* ------------------------------------------------- program constants
U16Max == 65535
BaseDelay == 120
ResizeDelay == 200

\* ------------------------------------------------------------ threads
NoThread == <<"none", 0>>
P(i) == <<"producer", i>>
W(i) == <<"drawer", i>>
Producers == 1..NumProducers
Drawers == 1..MaxAdds

NoSize == 0
ConsoleSizes == 0..MaxSize
NoGuard == [id |-> 0, uid |-> 0]
NL == 0            \* the '\n' character; any other token k is the text of renderer k

VARIABLES
  \* InnerState
  drawer_id, hide_count, has_draw_thread, next_entry_id, entries,
  \* the two locks: GLOBAL_STATE.state and the renderers' internal lock
  lock, rlock,
  \* threads
  prod, drawer,
  \* DrawThreadGuard values alive, allocation of renderers and drawers
  guards, nextUid, nextDrawer,
  \* the display region (static_text) and history
  screen, everSupported, everUnsupported, released, endedIds, hideReturned

registry == <<drawer_id, hide_count, has_draw_thread, next_entry_id, entries>>
history == <<everSupported, everUnsupported, released, endedIds, hideReturned>>
vars == <<drawer_id, hide_count, has_draw_thread, next_entry_id, entries,
          lock, rlock, prod, drawer, guards, nextUid, nextDrawer,
          screen, everSupported, everUnsupported, released, endedIds,
          hideReturned>>

\* (variant: the drawer id is not compared)
should_exit_ignoring_id(cur_drawer_id, cur_entries, my_drawer_id) ==
  cur_entries = <<>>

\* ------------------------------------------------------ pure helpers
\* InnerState::should_exit_draw_thread
should_exit_draw_thread(cur_drawer_id, cur_entries, my_drawer_id) ==
  cur_drawer_id # my_drawer_id \/ cur_entries = <<>>

\* add_entry: the wrapping id allocator
NextEntryId(n) == IF n = U16Max THEN 0 ELSE n + 1

\* entries.iter().position(|e| e.id == entry_id); 0 stands for None
Position(ents, entry_id) ==
  IF \E i \in 1..Len(ents) : ents[i].id = entry_id
  THEN CHOOSE i \in 1..Len(ents) :
         /\ ents[i].id = entry_id
         /\ \A j \in 1..(i - 1) : ents[j].id # entry_id
  ELSE 0

\* Vec::remove(index)
RemoveAt(s, i) == SubSeq(s, 1, i - 1) \o SubSeq(s, i + 1, Len(s))

\* hide: state.hide_count += 1
HideCount(h) == h + 1

\* (variant: the floor test is off by one)
ShowCountFloorOne(h) == IF h > 1 THEN h - 1 ELSE h

\* show: if state.hide_count > 0 { state.hide_count -= 1 }
ShowCount(h) == IF h > 0 THEN h - 1 ELSE h

\* finish_entry: "bump the drawer id to exit the draw thread"
DrawerIdAfterFinish(id) == id + 1

\* (variant: the start does not bump the id)
DrawerIdNotBumped(id) == id

\* maybe_start_draw_thread: state.drawer_id += 1
DrawerIdAfterStart(id) == id + 1

\* (variant: the hide_count is not looked at)
IsShowingIgnoringCount(has, h) == has

\* hide: let is_showing = state.has_draw_thread && state.hide_count == 0
IsShowing(has, h) == has /\ h = 0

\* (variant: the emptiness test is inverted)
ShouldClearInverted(ents_after, has) == ents_after # <<>> /\ has

\* finish_entry: should_clear, decided after the removal
ShouldClear(ents_after, has) == ents_after = <<>> /\ has

\* (variant: is_supported() is not consulted)
ShouldStartUnchecked(has, ents, supported) == ~(has \/ ents = <<>>)

\* (variant: has_draw_thread is not looked at)
FinishEntryNoFlagCheck(ents, has, id, entry_id) ==
  LET index == Position(ents, entry_id)
      after == IF index # 0 THEN RemoveAt(ents, index) ELSE ents
      should_clear == index # 0 /\ after = <<>>
  IN [entries |-> after,
      has_draw_thread |-> IF should_clear THEN FALSE ELSE has,
      drawer_id |-> IF should_clear THEN DrawerIdAfterFinish(id) ELSE id,
      should_clear |-> should_clear]

\* finish_entry, the locked block: what it makes of the entries, the flag
\* and the drawer id for a given entry_id, and whether it asks for a clear
FinishEntry(ents, has, id, entry_id) ==
  LET index == Position(ents, entry_id)
      after == IF index # 0 THEN RemoveAt(ents, index) ELSE ents
      should_clear == index # 0 /\ ShouldClear(after, has)
  IN [entries |-> after,
      has_draw_thread |-> IF should_clear THEN FALSE ELSE has,
      drawer_id |-> IF should_clear THEN DrawerIdAfterFinish(id) ELSE id,
      should_clear |-> should_clear]

\* maybe_start_draw_thread: the early return
ShouldStart(has, ents, supported) == ~(has \/ ents = <<>> \/ ~supported)

\* draw loop: should_display.then(|| state.entries.clone())
ShouldDisplay(h) == h = 0

\* (variant: the line break is pushed whatever the new text is)
PushTextAlwaysBreak(text, should_new_line_next, new_text) ==
  (IF should_new_line_next THEN text \o <<NL>> ELSE text) \o new_text

\* draw loop, one pass of the for body: push '\n' and the new text
PushText(text, should_new_line_next, new_text) ==
  (IF should_new_line_next /\ new_text # <<>> THEN text \o <<NL>> ELSE text)
    \o new_text

\* the whole `for entry in entries` loop on the list of what the renderers
\* return, from an empty text and should_new_line_next = false
RECURSIVE RenderFold(_, _, _)
RenderFold(outs, text, should_new_line_next) ==
  IF outs = <<>> THEN text
  ELSE RenderFold(Tail(outs), PushText(text, should_new_line_next, Head(outs)),
                  Head(outs) # <<>>)
RenderAll(outs) == RenderFold(outs, <<>>, FALSE)

\* what renderer uid may return: nothing, or its own text
RenderOutputs(uid) == {<<>>, <<uid>>}

\* (variant: the guard outlives the block, as if the render pass were inside it)
LockKeptAfterSnapshot(self) == self

\* the holder of the registry lock once the snapshot block has ended: the
\* guard `state` is dropped at the end of the block, before any renderer runs
LockAfterSnapshot(self) == NoThread

\* Mutex::lock: blocks until the lock is free
CanLock(holder) == holder = NoThread

IdleProd == [pc |-> "idle", guard |-> NoGuard, flag |-> FALSE]

\* a calling thread that unwound from a panic inside a call of the facade
PanickedProd == [pc |-> "panicked", guard |-> NoGuard, flag |-> FALSE]

NoDrawer == [pc |-> "none", drawer_id |-> 0, previous_size |-> NoSize,
             entries |-> <<>>, size |-> NoSize, idx |-> 0, text |-> <<>>,
             should_new_line_next |-> FALSE, delay_ms |-> BaseDelay,
             outs |-> <<>>]

Cleared == [kind |-> "clear", text |-> <<>>]
Untouched == [kind |-> "none", text |-> <<>>]
Frame(t) == [kind |-> "frame", text |-> t]
Range(s) == {s[i] : i \in 1..Len(s)}

\* ------------------------------------------------------------ initial
\* GLOBAL_STATE as constructed: nothing registered, no draw thread.
InitFresh ==
  /\ drawer_id = 0 /\ hide_count = 0 /\ has_draw_thread = FALSE
  /\ next_entry_id = 0 /\ entries = <<>>
  /\ lock = NoThread /\ rlock = NoThread
  /\ prod = [p \in Producers |-> IdleProd]
  /\ drawer = [w \in Drawers |-> NoDrawer]
  /\ guards = {} /\ nextUid = 1 /\ nextDrawer = 1
  /\ screen = Untouched /\ everSupported = FALSE /\ everUnsupported = FALSE
  /\ released = {} /\ endedIds = {} /\ hideReturned = FALSE

\* The registry after a long run in a supported terminal: the first entry
\* (id 0) is still held while further entries have come and gone without the
\* list ever emptying: U16Max - 1 of them (the allocator stands at U16Max,
\* about to wrap) or U16Max of them (it has wrapped to 0).  The first draw
\* thread is still the current one, asleep after drawing entry 1.
InitLongRun ==
  /\ drawer_id = 1 /\ hide_count = 0 /\ has_draw_thread = TRUE
  /\ next_entry_id \in {U16Max, 0} /\ entries = <<[id |-> 0, uid |-> 1]>>
  /\ lock = NoThread /\ rlock = NoThread
  /\ prod = [p \in Producers |-> IdleProd]
  /\ drawer = [w \in Drawers |->
                 IF w = 1 THEN [NoDrawer EXCEPT !.pc = "sleep", !.drawer_id = 1,
                                                !.previous_size = 1]
                          ELSE NoDrawer]
  /\ guards = {[id |-> 0, uid |-> 1]} /\ nextUid = 2 /\ nextDrawer = 2
  /\ screen = Frame(<<1>>) /\ everSupported = TRUE /\ everUnsupported = FALSE
  /\ released = {} /\ endedIds = {} /\ hideReturned = FALSE

Init == InitFresh \/ InitLongRun

\* ------------------------------------------------ the renderers' lock
\* A producer may make a call while holding the lock that its renderer's
\* render() takes (`hold`); it lets go of it when the call has returned.
HoldAtCall(p, hold) == IF hold THEN P(p) ELSE rlock
AfterReturn(p) == IF rlock = P(p) THEN NoThread ELSE rlock

\* ------------------------------------------------------------ add_entry
AddsPending == Cardinality({p \in Producers : prod[p].pc \in {"add", "add_cs"}})

AddCall(p, hold) ==
  /\ prod[p].pc = "idle"
  /\ nextUid + AddsPending <= MaxAdds
  /\ hold => CanLock(rlock)
  /\ rlock' = HoldAtCall(p, hold)
  /\ prod' = [prod EXCEPT ![p].pc = "add"]
  /\ UNCHANGED <<registry, lock, drawer, guards, nextUid, nextDrawer,
                 screen, history>>

AddLock(p) ==
  /\ prod[p].pc = "add"
  /\ CanLock(lock)
  /\ lock' = P(p)
  /\ prod' = [prod EXCEPT ![p].pc = "add_cs"]
  /\ UNCHANGED <<registry, rlock, drawer, guards, nextUid, nextDrawer,
                 screen, history>>

\* spawn_blocking hands the closure to the blocking pool of the tokio
\* runtime the caller is in, and panics when the caller is in none
SpawnReturns(in_runtime) == in_runtime

\* push the entry, advance the allocator, maybe_start_draw_thread, unlock,
\* return the guard.  `supported` is DrawThread::is_supported() at this call
\* and `in_runtime` tells whether the caller is inside a tokio runtime: when
\* it is not, spawn_blocking panics after drawer_id and has_draw_thread were
\* assigned, the lock is let go by unwinding and no guard comes back.
AddBody(p, supported, in_runtime) ==
  /\ prod[p].pc = "add_cs"
  /\ lock = P(p)
  /\ LET id == next_entry_id
         new_entries == Append(entries, [id |-> id, uid |-> nextUid])
         start == ShouldStart(has_draw_thread, new_entries, supported)
     IN /\ entries' = new_entries
        /\ next_entry_id' = NextEntryId(next_entry_id)
        /\ nextUid' = nextUid + 1
        /\ IF start
           THEN /\ drawer_id' = DrawerIdAfterStart(drawer_id)
                /\ has_draw_thread' = TRUE
           ELSE UNCHANGED <<drawer_id, has_draw_thread>>
        /\ IF start /\ SpawnReturns(in_runtime)
           THEN /\ drawer' = [drawer EXCEPT ![nextDrawer] =
                                [NoDrawer EXCEPT !.pc = "start",
                                   !.drawer_id = DrawerIdAfterStart(drawer_id)]]
                /\ nextDrawer' = nextDrawer + 1
           ELSE UNCHANGED <<drawer, nextDrawer>>
        /\ IF start /\ ~SpawnReturns(in_runtime)
           THEN /\ UNCHANGED guards
                /\ prod' = [prod EXCEPT ![p] = PanickedProd]
           ELSE /\ guards' = guards \cup {[id |-> id, uid |-> nextUid]}
                /\ prod' = [prod EXCEPT ![p] = IdleProd]
  /\ everSupported' = (everSupported \/ supported)
  /\ everUnsupported' = (everUnsupported \/ ~supported)
  /\ lock' = NoThread
  /\ rlock' = AfterReturn(p)
  /\ UNCHANGED <<hide_count, screen, released, endedIds, hideReturned>>

\* ----------------------------------------------------------------- hide
HidesPending == Cardinality({p \in Producers : prod[p].pc \in {"hide", "hide_cs"}})

HideCall(p) ==
  /\ prod[p].pc = "idle"
  /\ hide_count + HidesPending < MaxHide
  /\ prod' = [prod EXCEPT ![p].pc = "hide"]
  /\ UNCHANGED <<registry, lock, rlock, drawer, guards, nextUid, nextDrawer,
                 screen, history>>

HideLock(p) ==
  /\ prod[p].pc = "hide"
  /\ CanLock(lock)
  /\ lock' = P(p)
  /\ prod' = [prod EXCEPT ![p].pc = "hide_cs"]
  /\ UNCHANGED <<registry, rlock, drawer, guards, nextUid, nextDrawer,
                 screen, history>>

\* read is_showing, count the hide, unlock; return at once unless showing
HideBody(p) ==
  /\ prod[p].pc = "hide_cs"
  /\ lock = P(p)
  /\ LET is_showing == IsShowing(has_draw_thread, hide_count)
     IN /\ hide_count' = HideCount(hide_count)
        /\ prod' = [prod EXCEPT ![p] = IF is_showing
                                       THEN [IdleProd EXCEPT !.pc = "hide_clear",
                                                             !.flag = TRUE]
                                       ELSE IdleProd]
        /\ hideReturned' = (hideReturned \/ ~is_showing)
  /\ lock' = NoThread
  /\ UNCHANGED <<drawer_id, has_draw_thread, next_entry_id, entries, rlock,
                 drawer, guards, nextUid, nextDrawer, screen, everSupported,
                 everUnsupported,
                 released, endedIds>>

\* static_text.eprint_clear() on the calling thread, then return
HideClear(p) ==
  /\ prod[p].pc = "hide_clear"
  /\ screen' = Cleared
  /\ prod' = [prod EXCEPT ![p] = IdleProd]
  /\ hideReturned' = (hideReturned \/ hide_count > 0)
  /\ UNCHANGED <<registry, lock, rlock, drawer, guards, nextUid, nextDrawer,
                 everSupported, everUnsupported, released, endedIds>>

\* ----------------------------------------------------------------- show
ShowCall(p) ==
  /\ prod[p].pc = "idle"
  /\ prod' = [prod EXCEPT ![p].pc = "show"]
  /\ UNCHANGED <<registry, lock, rlock, drawer, guards, nextUid, nextDrawer,
                 screen, history>>

ShowLock(p) ==
  /\ prod[p].pc = "show"
  /\ CanLock(lock)
  /\ lock' = P(p)
  /\ prod' = [prod EXCEPT ![p].pc = "show_cs"]
  /\ UNCHANGED <<registry, rlock, drawer, guards, nextUid, nextDrawer,
                 screen, history>>

ShowBody(p) ==
  /\ prod[p].pc = "show_cs"
  /\ lock = P(p)
  /\ hide_count' = ShowCount(hide_count)
  /\ hideReturned' = (hideReturned /\ ShowCount(hide_count) > 0)
  /\ lock' = NoThread
  /\ prod' = [prod EXCEPT ![p] = IdleProd]
  /\ UNCHANGED <<drawer_id, has_draw_thread, next_entry_id, entries, rlock,
                 drawer, guards, nextUid, nextDrawer, screen, everSupported,
                 everUnsupported,
                 released, endedIds>>

\* ------------------------------------- DrawThreadGuard::drop, finish_entry
FinishCall(p, g, hold) ==
  /\ prod[p].pc = "idle"
  /\ g \in guards
  /\ hold => CanLock(rlock)
  /\ rlock' = HoldAtCall(p, hold)
  /\ guards' = guards \ {g}
  /\ prod' = [prod EXCEPT ![p] = [IdleProd EXCEPT !.pc = "fin", !.guard = g]]
  /\ UNCHANGED <<registry, lock, drawer, nextUid, nextDrawer,
                 screen, history>>

FinishLock(p) ==
  /\ prod[p].pc = "fin"
  /\ CanLock(lock)
  /\ lock' = P(p)
  /\ prod' = [prod EXCEPT ![p].pc = "fin_cs"]
  /\ UNCHANGED <<registry, rlock, drawer, guards, nextUid, nextDrawer,
                 screen, history>>

\* remove the first entry with the guard's id; when that empties the list
\* under a draw thread, bump drawer_id and drop the flag; unlock
FinishBody(p) ==
  /\ prod[p].pc = "fin_cs"
  /\ lock = P(p)
  /\ LET r == FinishEntry(entries, has_draw_thread, drawer_id, prod[p].guard.id)
     IN /\ entries' = r.entries
        /\ has_draw_thread' = r.has_draw_thread
        /\ drawer_id' = r.drawer_id
        /\ IF r.should_clear
           THEN /\ endedIds' = endedIds \cup {drawer_id}
                /\ prod' = [prod EXCEPT ![p].pc = "fin_clear", ![p].flag = TRUE]
                /\ UNCHANGED <<released, rlock>>
           ELSE /\ UNCHANGED endedIds
                /\ prod' = [prod EXCEPT ![p] = IdleProd]
                /\ released' = released \cup {prod[p].guard.uid}
                /\ rlock' = AfterReturn(p)
  /\ lock' = NoThread
  /\ UNCHANGED <<hide_count, next_entry_id, drawer, guards, nextUid,
                 nextDrawer, screen, everSupported, everUnsupported,
                 hideReturned>>

\* static_text.eprint_clear() after the lock is gone, then return
FinishClear(p) ==
  /\ prod[p].pc = "fin_clear"
  /\ screen' = Cleared
  /\ released' = released \cup {prod[p].guard.uid}
  /\ rlock' = AfterReturn(p)
  /\ prod' = [prod EXCEPT ![p] = IdleProd]
  /\ UNCHANGED <<registry, lock, drawer, guards, nextUid, nextDrawer,
                 everSupported, everUnsupported, endedIds, hideReturned>>

\* ------------------------------------------- the spawn_blocking closure
\* let mut previous_size = console_size();
DrawStart(w, size) ==
  /\ drawer[w].pc = "start"
  /\ drawer' = [drawer EXCEPT ![w].pc = "top", ![w].previous_size = size]
  /\ UNCHANGED <<registry, lock, rlock, prod, guards, nextUid, nextDrawer,
                 screen, history>>

\* top of the loop: GLOBAL_STATE.state.lock()
DrawLock(w) ==
  /\ drawer[w].pc = "top"
  /\ CanLock(lock)
  /\ lock' = W(w)
  /\ drawer' = [drawer EXCEPT ![w].pc = "snap_cs"]
  /\ UNCHANGED <<registry, rlock, prod, guards, nextUid, nextDrawer,
                 screen, history>>

\* break when told to exit; else clone the entries unless hidden; unlock
DrawSnapshot(w) ==
  /\ drawer[w].pc = "snap_cs"
  /\ lock = W(w)
  /\ IF should_exit_draw_thread(drawer_id, entries, drawer[w].drawer_id)
     THEN /\ drawer' = [drawer EXCEPT ![w] = [NoDrawer EXCEPT !.pc = "exited",
                                      !.drawer_id = drawer[w].drawer_id]]
          /\ lock' = NoThread
     ELSE /\ drawer' = [drawer EXCEPT
                          ![w].pc = IF ShouldDisplay(hide_count) THEN "size"
                                                                 ELSE "sleep",
                          ![w].entries = IF ShouldDisplay(hide_count)
                                         THEN entries ELSE <<>>]
          /\ lock' = LockAfterSnapshot(W(w))
  /\ UNCHANGED <<registry, rlock, prod, guards, nextUid, nextDrawer,
                 screen, history>>

\* (variant: always the base delay)
DelayAlwaysBase(size, previous_size) == BaseDelay

\* the delay chosen when the queried size is not the remembered one
DelayFor(size, previous_size) ==
  IF size # previous_size THEN ResizeDelay ELSE BaseDelay

\* let size = console_size(); resize check; for the render pass a size is needed
DrawSize(w, size) ==
  /\ drawer[w].pc = "size"
  /\ drawer' = [drawer EXCEPT
       ![w].previous_size = size,
       ![w].delay_ms = DelayFor(size, drawer[w].previous_size),
       ![w].size = IF size = drawer[w].previous_size THEN size ELSE NoSize,
       ![w].idx = IF size = drawer[w].previous_size /\ size # NoSize THEN 1 ELSE 0,
       ![w].entries = IF size = drawer[w].previous_size /\ size # NoSize
                      THEN drawer[w].entries ELSE <<>>,
       ![w].pc = IF size = drawer[w].previous_size /\ size # NoSize
                 THEN "render" ELSE "sleep"]
  /\ UNCHANGED <<registry, lock, rlock, prod, guards, nextUid, nextDrawer,
                 screen, history>>

\* one pass of `for entry in entries`: entry.renderer.render(&size), which
\* takes the renderer's own lock for the call, then the text is appended.
\* The cloned list stays on record until the commit step, to tell which
\* entries a frame was composed from, and so does the list of what the
\* renderers returned (outs).
DrawRender(w, new_text) ==
  /\ drawer[w].pc = "render"
  /\ CanLock(rlock)
  /\ LET d == drawer[w]
         last == d.idx = Len(d.entries)
     IN /\ new_text \in RenderOutputs(d.entries[d.idx].uid)
        /\ drawer' = [drawer EXCEPT
             ![w].text = PushText(d.text, d.should_new_line_next, new_text),
             ![w].outs = Append(d.outs, new_text),
             ![w].should_new_line_next = IF last THEN FALSE ELSE new_text # <<>>,
             ![w].idx = IF last THEN 0 ELSE d.idx + 1,
             ![w].pc = IF last THEN "commit" ELSE "render"]
  /\ UNCHANGED <<registry, lock, rlock, prod, guards, nextUid, nextDrawer,
                 screen, history>>

\* "now reacquire the lock"
DrawCommitLock(w) ==
  /\ drawer[w].pc = "commit"
  /\ CanLock(lock)
  /\ lock' = W(w)
  /\ drawer' = [drawer EXCEPT ![w].pc = "commit_cs"]
  /\ UNCHANGED <<registry, rlock, prod, guards, nextUid, nextDrawer,
                 screen, history>>

\* "ensure we should still be drawing, then output the text"; unlock
DrawCommit(w) ==
  /\ drawer[w].pc = "commit_cs"
  /\ lock = W(w)
  /\ IF should_exit_draw_thread(drawer_id, entries, drawer[w].drawer_id)
     THEN /\ drawer' = [drawer EXCEPT ![w] = [NoDrawer EXCEPT !.pc = "exited",
                                      !.drawer_id = drawer[w].drawer_id]]
          /\ UNCHANGED screen
     ELSE /\ screen' = Frame(drawer[w].text)
          /\ drawer' = [drawer EXCEPT ![w].pc = "sleep", ![w].text = <<>>,
                                      ![w].size = NoSize, ![w].entries = <<>>,
                                      ![w].outs = <<>>]
  /\ lock' = NoThread
  /\ UNCHANGED <<registry, rlock, prod, guards, nextUid, nextDrawer, history>>

\* std::thread::sleep(Duration::from_millis(delay_ms)), then the next pass
DrawSleep(w) ==
  /\ drawer[w].pc = "sleep"
  /\ drawer' = [drawer EXCEPT ![w].pc = "top", ![w].delay_ms = BaseDelay]
  /\ UNCHANGED <<registry, lock, rlock, prod, guards, nextUid, nextDrawer,
                 screen, history>>

\* ------------------------------------------------------------- system
Next ==
  \/ \E p \in Producers : \E hold \in BOOLEAN : AddCall(p, hold)
  \/ \E p \in Producers : AddLock(p)
  \/ \E p \in Producers : \E supported \in BOOLEAN, in_runtime \in BOOLEAN :
       AddBody(p, supported, in_runtime)
  \/ \E p \in Producers : HideCall(p)
  \/ \E p \in Producers : HideLock(p)
  \/ \E p \in Producers : HideBody(p)
  \/ \E p \in Producers : HideClear(p)
  \/ \E p \in Producers : ShowCall(p)
  \/ \E p \in Producers : ShowLock(p)
  \/ \E p \in Producers : ShowBody(p)
  \/ \E p \in Producers : \E g \in guards : \E hold \in BOOLEAN :
       FinishCall(p, g, hold)
  \/ \E p \in Producers : FinishLock(p)
  \/ \E p \in Producers : FinishBody(p)
  \/ \E p \in Producers : FinishClear(p)
  \/ \E w \in Drawers : \E size \in ConsoleSizes : DrawStart(w, size)
  \/ \E w \in Drawers : DrawLock(w)
  \/ \E w \in Drawers : DrawSnapshot(w)
  \/ \E w \in Drawers : \E size \in ConsoleSizes : DrawSize(w, size)
  \/ \E w \in Drawers : \E uid \in 1..MaxAdds :
       \E new_text \in RenderOutputs(uid) : DrawRender(w, new_text)
  \/ \E w \in Drawers : DrawCommitLock(w)
  \/ \E w \in Drawers : DrawCommit(w)
  \/ \E w \in Drawers : DrawSleep(w)

Spec == Init /\ [][Next]_vars

\* ------------------------------------------------------ step predicates
\* the commit step of drawer w that writes its frame
FrameWritten(w) == drawer[w].pc = "commit_cs" /\ drawer'[w].pc = "sleep"
\* a pass of the render loop of drawer w
Rendered(w) == drawer[w].pc = "render" /\ drawer'[w] # drawer[w]
\* the unlocked clear of a producer
ClearIssued(p) == prod[p].pc \in {"hide_clear", "fin_clear"} /\ prod'[p].pc = "idle"
\* the locked body of finish_entry run by p
FinishBodyStep(p) == prod[p].pc = "fin_cs" /\ prod'[p].pc # "fin_cs"

Spawned(w) == drawer[w].pc # "none"
Running(w) == drawer[w].pc \notin {"none", "exited"}
Stale(w) == Spawned(w) /\ drawer[w].drawer_id # drawer_id
Current(w) == Running(w) /\ drawer[w].drawer_id = drawer_id
Committers == {w \in Drawers : drawer[w].pc = "commit_cs"}
Hidden == hideReturned /\ hide_count > 0

\* ================================================================ C1
\* C1: at most one drawer is in its locked commit step at a time; every
\* frame written is written by a drawer whose drawer_id is the registry's
\* at the write, and is the text it rendered; a drawer whose id has been
\* bumped stays stale and never writes a frame again.
C1_SingleCommitterCurrentId ==
  /\ [](Cardinality(Committers) <= 1)
  /\ [][\A w \in Drawers :
          /\ FrameWritten(w) => /\ drawer[w].drawer_id = drawer_id
                                /\ screen' = Frame(drawer[w].text)
          /\ Stale(w) => Stale(w)' /\ ~FrameWritten(w)]_vars

\* a stale drawer is in its commit step with the frame it rendered before
\* the bump, while the drawer of the current id waits to commit its own
C1_Witness ==
  \E w1, w2 \in Drawers :
    /\ Stale(w1) /\ drawer[w1].pc = "commit_cs" /\ drawer[w1].text # <<>>
    /\ Current(w2) /\ drawer[w2].pc = "commit"

\* ================================================================ C2
\* C2: once finish_entry for an entry's guard has returned, no drawer calls
\* that entry's renderer and no frame written contains that entry's text.
C2_NeverRenderedAfterRelease ==
  [][\A w \in Drawers :
       /\ Rendered(w) => drawer[w].entries[drawer[w].idx].uid \notin released
       /\ FrameWritten(w) => \A u \in released : u \notin Range(drawer[w].text)]_vars

\* ================================================================ C3
\* C3: from the return of a hide() until hide_count is back to 0, no drawer
\* writes a frame.
C3_NoFrameWhileHidden ==
  [][\A w \in Drawers : FrameWritten(w) => ~Hidden]_vars

\* ================================================================ C4
\* C4 as claimed: a release that removes the last entry issues a clear.
C4_LastReleaseClears ==
  [][\A p \in Producers :
       (FinishBodyStep(p) /\ entries # <<>> /\ entries' = <<>>)
         => prod'[p].pc = "fin_clear"]_vars

\* C4 amended: a release that removes the last entry while a draw thread is
\* marked active goes on to issue one clear and then returns; no frame is
\* written afterwards by a drawer of an id that such a release ended; and
\* while the list stays empty and no such clear is still to come, the
\* display region holds no frame.
C4_LastReleaseClearsWhenActive ==
  /\ [][\A p \in Producers :
          /\ (FinishBodyStep(p) /\ entries # <<>> /\ entries' = <<>>
                /\ has_draw_thread)
               => /\ prod'[p].pc = "fin_clear"
                  /\ drawer_id \in endedIds' /\ drawer_id' # drawer_id
          /\ prod[p].pc = "fin_clear" /\ prod'[p] # prod[p]
               => screen' = Cleared /\ prod'[p].pc = "idle"]_vars
  /\ [][\A w \in Drawers :
          FrameWritten(w) => drawer[w].drawer_id \notin endedIds]_vars
  /\ []((entries = <<>> /\ \A p \in Producers : prod[p].pc # "fin_clear")
          => screen.kind # "frame")

\* the last release has returned after its clear, the region is cleared and
\* the drawer it ended has exited
C4_Witness ==
  /\ entries = <<>> /\ screen = Cleared /\ endedIds # {}
  /\ \A p \in Producers : prod[p].pc = "idle"
  /\ \E w \in Drawers : drawer[w].pc = "exited" /\ drawer[w].drawer_id \in endedIds

\* ================================================================ C5
\* C5: a drawer never calls a renderer while it holds the registry lock, so
\* no state has a drawer waiting for the renderers' lock held by a producer
\* that waits for the registry lock held by that drawer.
WaitsForRegistry(p) == prod[p].pc \in {"add", "hide", "show", "fin"}
C5_NoLockCycle ==
  /\ \A w \in Drawers : drawer[w].pc = "render" => lock # W(w)
  /\ ~ \E w \in Drawers, p \in Producers :
         /\ drawer[w].pc = "render" /\ rlock = P(p)
         /\ WaitsForRegistry(p) /\ lock = W(w)

\* a drawer is blocked on the renderers' lock, held by a producer that is
\* itself blocked on the registry lock (held by another thread)
C5_Witness ==
  \E w \in Drawers, p \in Producers :
    /\ drawer[w].pc = "render" /\ rlock = P(p)
    /\ prod[p].pc \in {"add", "fin"} /\ lock # NoThread

\* ================================================================ C6
\* C6: at most one running drawer carries the registry's current drawer_id,
\* has_draw_thread is true exactly when one does, and any other running
\* drawer exits at its next locked check.
C6_OneCurrentDrawer ==
  /\ [](/\ Cardinality({w \in Drawers : Current(w)}) <= 1
        /\ has_draw_thread <=> \E w \in Drawers : Current(w))
  /\ [][\A w \in Drawers :
          (Stale(w) /\ drawer[w].pc \in {"snap_cs", "commit_cs"}
             /\ drawer'[w] # drawer[w]) => drawer'[w].pc = "exited"]_vars

\* ================================================================ C7
RECURSIVE HideTimes(_, _)
HideTimes(h, k) == IF k = 0 THEN h ELSE HideTimes(HideCount(h), k - 1)
RECURSIVE ShowTimes(_, _)
ShowTimes(h, k) == IF k = 0 THEN h ELSE ShowTimes(ShowCount(h), k - 1)

\* C7: from every reachable hide_count, k hides followed by k shows give the
\* same hide_count back; the body of hide adds one; the body of show takes
\* one off, and at 0 leaves the whole registry as it is; and a drawer takes
\* the entries for display only when it reads hide_count = 0.
C7_HideShowCounted ==
  /\ [](\A k \in 0..(MaxHide + 1) :
          ShowTimes(HideTimes(hide_count, k), k) = hide_count)
  /\ [][\A p \in Producers :
          /\ (prod[p].pc = "hide_cs" /\ prod'[p].pc # "hide_cs")
               => hide_count' = hide_count + 1
          /\ (prod[p].pc = "show_cs" /\ prod'[p].pc # "show_cs")
               => /\ hide_count > 0 => hide_count' = hide_count - 1
                  /\ hide_count = 0 => UNCHANGED registry]_vars
  /\ [][\A w \in Drawers :
          (drawer[w].pc = "snap_cs" /\ drawer'[w].pc = "size")
            => hide_count = 0]_vars

\* two hides are outstanding and the first of the matching shows is about
\* to run, while a drawer that read hide_count > 0 skips its pass
C7_Witness ==
  /\ hide_count = 2
  /\ \E p \in Producers : prod[p].pc = "show_cs"
  /\ \E w \in Drawers : Current(w) /\ drawer[w].pc = "sleep"

\* ================================================================ C8
\* C8: every write to the display region is made by a thread that holds the
\* registry lock.
C8_WritesUnderLock ==
  [][/\ \A p \in Producers : ClearIssued(p) => lock = P(p)
     /\ \A w \in Drawers : FrameWritten(w) => lock = W(w)]_vars

\* ================================================================ C9
\* C9: as long as no add_entry call has found the environment supported,
\* add_entry appends the entry and hands out a guard with its id, no drawer
\* exists, drawer_id and has_draw_thread keep their initial values, and the
\* display region has received neither a frame nor a clear, none pending.
C9_UnsupportedIsInert ==
  /\ [](~everSupported =>
          /\ drawer_id = 0 /\ ~has_draw_thread
          /\ \A w \in Drawers : ~Spawned(w)
          /\ screen = Untouched
          /\ \A p \in Producers : prod[p].pc \notin {"hide_clear", "fin_clear"})
  /\ [][\A p \in Producers :
          (prod[p].pc = "add_cs" /\ prod'[p].pc = "idle" /\ ~everSupported')
            => /\ entries' = Append(entries, [id |-> next_entry_id, uid |-> nextUid])
               /\ [id |-> next_entry_id, uid |-> nextUid] \in guards'
               /\ UNCHANGED <<drawer_id, has_draw_thread, drawer, screen>>]_vars

\* unsupported throughout: an entry is registered, another has been
\* released, and a hide is outstanding
C9_Witness ==
  /\ ~everSupported /\ entries # <<>> /\ released # {} /\ hide_count > 0

\* =============================================================== C10
\* C10: the release of a guard removes exactly the entry made by the
\* add_entry call that returned the guard, which is still registered then.
C10_ReleaseRemovesOwnEntry ==
  [][\A p \in Producers :
       FinishBodyStep(p) =>
         /\ \E i \in 1..Len(entries) : entries[i].uid = prod[p].guard.uid
         /\ entries' = SelectSeq(entries, LAMBDA e : e.uid # prod[p].guard.uid)]_vars

\* =============================================================== C11
\* C11: no two entries of the registry share an id (at most MaxAdds + 1
\* entries are ever live together here, far fewer than the 2^16 ids).
C11_LiveIdsUnique ==
  \A i, j \in 1..Len(entries) : i # j => entries[i].id # entries[j].id

\* ====================================================== frame composition
\* A registry that already holds up to MaxStack entries, added in the order
\* of their uids on a supported terminal, the drawer of the first add_entry
\* just spawned; from there the drawer runs its passes, the renderers return
\* any of their outputs, and the guards are released in any order.
MaxStack == 3

InitCompose ==
  \E n \in 1..MaxStack :
    /\ drawer_id = 1 /\ hide_count = 0 /\ has_draw_thread = TRUE
    /\ next_entry_id = n
    /\ entries = [k \in 1..n |-> [id |-> k - 1, uid |-> k]]
    /\ lock = NoThread /\ rlock = NoThread
    /\ prod = [p \in Producers |-> IdleProd]
    /\ drawer = [w \in Drawers |->
                   IF w = 1 THEN [NoDrawer EXCEPT !.pc = "start", !.drawer_id = 1]
                            ELSE NoDrawer]
    /\ guards = {[id |-> k - 1, uid |-> k] : k \in 1..n}
    /\ nextUid = n + 1 /\ nextDrawer = 2
    /\ screen = Untouched /\ everSupported = TRUE /\ everUnsupported = FALSE
    /\ released = {} /\ endedIds = {} /\ hideReturned = FALSE

NextCompose ==
  \/ \E p \in Producers : \E g \in guards : \E hold \in BOOLEAN :
       FinishCall(p, g, hold)
  \/ \E p \in Producers : FinishLock(p)
  \/ \E p \in Producers : FinishBody(p)
  \/ \E p \in Producers : FinishClear(p)
  \/ \E w \in Drawers : \E size \in ConsoleSizes : DrawStart(w, size)
  \/ \E w \in Drawers : DrawLock(w)
  \/ \E w \in Drawers : DrawSnapshot(w)
  \/ \E w \in Drawers : \E size \in ConsoleSizes : DrawSize(w, size)
  \/ \E w \in Drawers : \E uid \in 1..MaxStack :
       \E new_text \in RenderOutputs(uid) : DrawRender(w, new_text)
  \/ \E w \in Drawers : DrawCommitLock(w)
  \/ \E w \in Drawers : DrawCommit(w)
  \/ \E w \in Drawers : DrawSleep(w)

SpecCompose == InitCompose /\ [][NextCompose]_vars

\* =============================================================== C12
\* the frame of a list of outputs, said without the loop: the outputs in
\* order, with one line break between two neighbours that are both non-empty
RECURSIVE Compose(_)
Compose(outs) ==
  IF outs = <<>> THEN <<>>
  ELSE LET n == Len(outs)
       IN Compose(SubSeq(outs, 1, n - 1))
            \o (IF n > 1 /\ outs[n - 1] # <<>> /\ outs[n] # <<>>
                THEN <<NL>> ELSE <<>>)
            \o outs[n]

Composing(w) == drawer[w].pc \in {"render", "commit", "commit_cs"}

\* C12: the list a drawer takes is the registry's entries in their order;
\* the text it builds is, at every point of the pass, the outputs of the
\* entries rendered so far, in that order, with one line break between two
\* neighbouring non-empty outputs and none next to an empty one; the frame it
\* writes is that text for the whole list; and a release takes one entry out
\* of the registry and leaves the others in their order.
C12_FrameIsStackedOutputs ==
  /\ [](\A w \in Drawers :
          Composing(w) =>
            LET d == drawer[w]
            IN /\ d.text = Compose(d.outs)
               /\ Len(d.outs) = IF d.pc = "render" THEN d.idx - 1
                                                   ELSE Len(d.entries)
               /\ \A k \in 1..Len(d.outs) :
                    d.outs[k] \in RenderOutputs(d.entries[k].uid))
  /\ [][\A w \in Drawers :
          /\ (drawer[w].pc = "snap_cs" /\ drawer'[w].pc = "size")
               => drawer'[w].entries = entries
          /\ FrameWritten(w)
               => /\ screen' = Frame(Compose(drawer[w].outs))
                  /\ Len(drawer[w].outs) = Len(drawer[w].entries)]_vars
  /\ [][\A p \in Producers :
          FinishBodyStep(p) =>
            \E i \in 1..Len(entries) :
              entries' = SubSeq(entries, 1, i - 1)
                           \o SubSeq(entries, i + 1, Len(entries))]_vars

\* entries 1, 2, 3 were stacked, 1 has been released, and the frame on the
\* display is the outputs of 2 and 3 with one line break between them
C12_Witness ==
  /\ 1 \in released
  /\ Len(entries) = 2 /\ entries[1].uid = 2 /\ entries[2].uid = 3
  /\ screen = Frame(<<2, NL, 3>>)

\* =============================================================== C13
\* C13: the text a drawer has composed from a list of outputs is the text
\* the loop composes from that list with its empty outputs deleted.
C13_EmptyOutputsContributeNothing ==
  \A w \in Drawers :
    Composing(w) =>
      drawer[w].text
        = RenderAll(SelectSeq(drawer[w].outs, LAMBDA o : o # <<>>))

\* =============================================================== C15
\* C15: the body of add_entry puts the new entry at the end of the list with
\* the id next_entry_id and advances next_entry_id by one modulo 2^16; when
\* has_draw_thread is false and the environment is supported it adds one to
\* drawer_id, sets has_draw_thread and starts one drawer, which carries the
\* new drawer_id; otherwise drawer_id, has_draw_thread and the drawers are
\* as before; hide_count is as before; and no other step starts a drawer.
C15_AddEntryEffects ==
  /\ [][\A p \in Producers, supported \in BOOLEAN, in_runtime \in BOOLEAN :
          AddBody(p, supported, in_runtime) =>
            LET started == {w \in Drawers : ~Spawned(w) /\ drawer'[w].pc # "none"}
            IN /\ entries' = Append(entries, [id |-> next_entry_id, uid |-> nextUid])
               /\ next_entry_id' = (next_entry_id + 1) % (U16Max + 1)
               /\ hide_count' = hide_count
               /\ IF ~has_draw_thread /\ supported
                  THEN /\ drawer_id' = drawer_id + 1
                       /\ has_draw_thread' = TRUE
                       /\ Cardinality(started) = 1
                       /\ \A w \in started :
                            /\ drawer'[w].pc = "start"
                            /\ drawer'[w].drawer_id = drawer_id'
                       /\ \A w \in Drawers \ started : drawer'[w] = drawer[w]
                  ELSE UNCHANGED <<drawer_id, has_draw_thread, drawer>>]_vars
  /\ [][\A w \in Drawers :
          (~Spawned(w) /\ drawer'[w].pc # "none")
            => \E p \in Producers : prod[p].pc = "add_cs" /\ prod'[p].pc = "idle"]_vars

\* =============================================================== C16
\* the ids finish_entry is tried with on every registry that is reached
ProbeIds == {0, 1, 2, U16Max}

\* C16: finish_entry with an id that no entry has leaves entries, drawer_id
\* and has_draw_thread as they are and asks for no clear.  The body of a
\* finish_entry that finds its id takes one entry with that id out; when
\* that empties the list and has_draw_thread is true it adds one to
\* drawer_id, clears has_draw_thread and goes on to one clear, and otherwise
\* leaves drawer_id and has_draw_thread alone, writes nothing and returns.
\* No step of finish_entry changes hide_count or next_entry_id.
C16_FinishEntryEffects ==
  /\ [](\A id \in ProbeIds :
          (\A i \in 1..Len(entries) : entries[i].id # id)
            => FinishEntry(entries, has_draw_thread, drawer_id, id)
                 = [entries |-> entries, has_draw_thread |-> has_draw_thread,
                    drawer_id |-> drawer_id, should_clear |-> FALSE])
  /\ [][\A p \in Producers :
          /\ FinishBodyStep(p) =>
               LET id == prod[p].guard.id
                   present == \E i \in 1..Len(entries) : entries[i].id = id
                   emptied == present /\ entries' = <<>> /\ has_draw_thread
               IN /\ present =>
                       \E i \in 1..Len(entries) :
                         /\ entries[i].id = id
                         /\ entries' = SubSeq(entries, 1, i - 1)
                                         \o SubSeq(entries, i + 1, Len(entries))
                  /\ ~present => entries' = entries
                  /\ IF emptied
                     THEN /\ drawer_id' = drawer_id + 1
                          /\ has_draw_thread' = FALSE
                          /\ prod'[p].pc = "fin_clear"
                     ELSE /\ UNCHANGED <<drawer_id, has_draw_thread>>
                          /\ prod'[p].pc = "idle"
                  /\ UNCHANGED <<hide_count, next_entry_id, screen>>
          /\ (prod[p].pc \in {"fin", "fin_clear"} /\ prod'[p] # prod[p])
               => UNCHANGED registry
          /\ (prod[p].pc = "fin_clear" /\ prod'[p] # prod[p])
               => screen' = Cleared /\ prod'[p].pc = "idle"
          /\ (prod[p].pc = "fin" /\ prod'[p] # prod[p])
               => screen' = screen]_vars

\* a release that did not empty the list has returned without a clear, the
\* drawer is still marked active, and another release is in its locked block
C16_Witness ==
  /\ released # {} /\ entries # <<>> /\ has_draw_thread
  /\ screen.kind = "frame"
  /\ \E p \in Producers : prod[p].pc = "fin_cs"

\* =============================================================== C17
\* C17: the body of hide adds one to hide_count; it goes on to one clear, made
\* by the calling thread, exactly when has_draw_thread was true and hide_count
\* was 0 before the addition, and returns without a write otherwise; no step
\* of hide changes entries, drawer_id, has_draw_thread or any drawer.
C17_HideEffects ==
  [][\A p \in Producers :
       /\ (prod[p].pc = "hide_cs" /\ prod'[p].pc # "hide_cs")
            => /\ hide_count' = hide_count + 1
               /\ prod'[p].pc = IF has_draw_thread /\ hide_count = 0
                                THEN "hide_clear" ELSE "idle"
               /\ screen' = screen
       /\ (prod[p].pc = "hide_clear" /\ prod'[p] # prod[p])
            => /\ screen' = Cleared /\ prod'[p].pc = "idle"
               /\ hide_count' = hide_count
       /\ (prod[p].pc = "hide" /\ prod'[p] # prod[p])
            => screen' = screen /\ hide_count' = hide_count
       /\ (prod[p].pc \in {"hide", "hide_cs", "hide_clear"} /\ prod'[p] # prod[p])
            => UNCHANGED <<entries, drawer_id, has_draw_thread, next_entry_id,
                           drawer>>]_vars

\* the first hide found the frame showing and is about to clear; the second
\* found hide_count at 1 and has returned without a clear
C17_Witness ==
  /\ has_draw_thread /\ hide_count = 2
  /\ \E p, q \in Producers :
       p # q /\ prod[p].pc = "hide_clear" /\ prod[q].pc = "idle"

\* =============================================================== C19
\* C19: when the size a drawer queries is not the one it remembers, the pass
\* ends there: the new size is remembered, the delay is 200, no renderer has
\* been called and nothing is written; when the size is the remembered one
\* but unavailable, the pass ends with the delay of 120 and the drawer goes
\* on; only when it is available and the remembered one does the drawer
\* render.  A pass that ended sleeps and starts the next one.  A renderer is
\* called and a frame is written only with an available size that is the
\* remembered one.
C19_ResizeSkipsThePass ==
  /\ [][\A w \in Drawers, size \in ConsoleSizes :
          DrawSize(w, size) =>
            /\ drawer'[w].previous_size = size
            /\ drawer'[w].outs = <<>> /\ screen' = screen
            /\ size # drawer[w].previous_size
                 => drawer'[w].pc = "sleep" /\ drawer'[w].delay_ms = 200
            /\ (size = drawer[w].previous_size /\ size = NoSize)
                 => drawer'[w].pc = "sleep" /\ drawer'[w].delay_ms = 120
            /\ (size = drawer[w].previous_size /\ size # NoSize)
                 => /\ drawer'[w].pc = "render" /\ drawer'[w].delay_ms = 120
                    /\ drawer'[w].size = size]_vars
  /\ [][\A w \in Drawers :
          /\ (drawer[w].pc = "sleep" /\ drawer'[w] # drawer[w])
               => drawer'[w].pc = "top" /\ screen' = screen
          /\ (Rendered(w) \/ FrameWritten(w))
               => /\ drawer[w].size # NoSize
                  /\ drawer[w].size = drawer[w].previous_size]_vars

\* a drawer that wrote a frame at size 1 then found the size unavailable:
\* it remembers that and sleeps the longer delay, the frame still displayed
C19_Witness ==
  \E w \in Drawers :
    /\ Current(w) /\ drawer[w].pc = "sleep"
    /\ drawer[w].delay_ms = ResizeDelay /\ drawer[w].previous_size = NoSize
    /\ screen.kind = "frame"

\* =============================================================== C20
\* C20: whenever the registry lock is free, has_draw_thread implies that
\* entries is not empty, and has_draw_thread is true exactly when drawer_id
\* is odd; drawer_id changes only by one and only in a step that flips
\* has_draw_thread, and has_draw_thread flips only in a step that changes
\* drawer_id; and as long as every add_entry call found the environment
\* supported, has_draw_thread is true exactly when entries is not empty.
C20_FlagGenerationEntries ==
  /\ [](lock = NoThread =>
          /\ has_draw_thread => entries # <<>>
          /\ has_draw_thread <=> drawer_id % 2 = 1
          /\ ~everUnsupported => (has_draw_thread <=> entries # <<>>))
  /\ [][/\ drawer_id' # drawer_id
             => drawer_id' = drawer_id + 1 /\ has_draw_thread' # has_draw_thread
        /\ has_draw_thread' # has_draw_thread => drawer_id' # drawer_id]_vars

\* always supported: the list was emptied once and a later add_entry started
\* the second drawer
C20_Witness ==
  /\ lock = NoThread /\ ~everUnsupported
  /\ has_draw_thread /\ entries # <<>> /\ drawer_id = 3

\* ============================================================== liveness
\* The program on a supported terminal whose size stays Some(1), with
\* renderers that no caller keeps locked and callers inside or outside a
\* tokio runtime.  The drawers are threads of the
\* blocking pool and get to run; a thread inside a locked block gets to its
\* end; parking_lot's Mutex is eventually fair, so a thread that waits for
\* the registry lock gets it.  No call of the facade is ever forced.
StableSize == 1

NextLive ==
  \/ \E p \in Producers : AddCall(p, FALSE)
  \/ \E p \in Producers : AddLock(p)
  \/ \E p \in Producers : \E in_runtime \in BOOLEAN : AddBody(p, TRUE, in_runtime)
  \/ \E p \in Producers : HideCall(p)
  \/ \E p \in Producers : HideLock(p)
  \/ \E p \in Producers : HideBody(p)
  \/ \E p \in Producers : HideClear(p)
  \/ \E p \in Producers : ShowCall(p)
  \/ \E p \in Producers : ShowLock(p)
  \/ \E p \in Producers : ShowBody(p)
  \/ \E p \in Producers : \E g \in guards : FinishCall(p, g, FALSE)
  \/ \E p \in Producers : FinishLock(p)
  \/ \E p \in Producers : FinishBody(p)
  \/ \E p \in Producers : FinishClear(p)
  \/ \E w \in Drawers : DrawStart(w, StableSize)
  \/ \E w \in Drawers : DrawLock(w)
  \/ \E w \in Drawers : DrawSnapshot(w)
  \/ \E w \in Drawers : DrawSize(w, StableSize)
  \/ \E w \in Drawers : \E uid \in 1..MaxAdds :
       \E new_text \in RenderOutputs(uid) : DrawRender(w, new_text)
  \/ \E w \in Drawers : DrawCommitLock(w)
  \/ \E w \in Drawers : DrawCommit(w)
  \/ \E w \in Drawers : DrawSleep(w)

DrawerRuns(w) ==
  \/ DrawStart(w, StableSize) \/ DrawSnapshot(w) \/ DrawSize(w, StableSize)
  \/ \E uid \in 1..MaxAdds : \E new_text \in RenderOutputs(uid) :
       DrawRender(w, new_text)
  \/ DrawCommit(w) \/ DrawSleep(w)

DrawerLocks(w) == DrawLock(w) \/ DrawCommitLock(w)

LockedBlockEnds(p) ==
  \/ \E in_runtime \in BOOLEAN : AddBody(p, TRUE, in_runtime)
  \/ HideBody(p) \/ ShowBody(p) \/ FinishBody(p)

FairLive ==
  /\ \A w \in Drawers : WF_vars(DrawerRuns(w)) /\ SF_vars(DrawerLocks(w))
  /\ \A p \in Producers : WF_vars(LockedBlockEnds(p))

SpecLive == InitFresh /\ [][NextLive]_vars /\ FairLive

\* =============================================================== C14
\* entry e is registered and its guard is held by its caller, a drawer is
\* marked active and nothing hides
Stay(e) ==
  /\ has_draw_thread /\ hide_count = 0
  /\ \E i \in 1..Len(entries) : entries[i].uid = e
  /\ \E g \in guards : g.uid = e

\* a drawer writes a frame composed from a list that holds entry e
FrameWrittenWith(e) ==
  \E w \in Drawers :
    /\ FrameWritten(w)
    /\ \E k \in 1..Len(drawer[w].entries) : drawer[w].entries[k].uid = e

\* C14: for every entry, if from some point on the entry stays registered
\* with its guard held, a drawer stays marked active and hide_count stays 0
\* (in particular after
\* the show that brings hide_count back to 0), then frames composed from a
\* list holding that entry are written again and again.
C14_LiveEntryIsDrawn ==
  \A e \in 1..MaxAdds : <>[]Stay(e) => []<><<FrameWrittenWith(e)>>_vars

\* =============================================================== C18
\* C18: a running drawer whose drawer_id is no longer the registry's ends up
\* exited, whatever else runs, a newer drawer included; and a drawer whose
\* drawer_id is the registry's while entries is not empty does not exit.
C18_StaleDrawerExits ==
  /\ \A w \in Drawers : (Stale(w) /\ Running(w)) ~> (drawer[w].pc = "exited")
  /\ [][\A w \in Drawers :
          (Current(w) /\ entries # <<>>) => drawer'[w].pc # "exited"]_vars

\* the first drawer has exited after its drawer_id was passed, while the
\* drawer of a later add_entry is running
C18_Witness ==
  /\ drawer[1].pc = "exited" /\ drawer[1].drawer_id \in endedIds
  /\ Current(2) /\ drawer[2].pc = "sleep"

====
